---------------------------- MODULE Spec2Model ----------------------------
(***************************************************************************)
(* stocknews-mcp: the technical-indicator wrappers (functions/             *)
(* technicalIndicator.ts), the tool handlers registered in tools/tools.ts  *)
(* and in the stdio entry point index.ts.                                  *)
(*                                                                         *)
(* Positions in a closing series are 1-based here (TLA+ sequences); the    *)
(* JavaScript index i of the source is position i + 1.  An indicator value *)
(* carries the position ("step") of the close it was computed for, so that *)
(* alignment of values and dates is something the model can get wrong.     *)
(***************************************************************************)
EXTENDS Integers, Sequences, FiniteSets, TLC

VARIABLES
    call,       \* engine: the wrapper call being made (function and arguments)
    ret,        \* engine: what the wrapper returned
    pc,         \* handler: "idle" | "awaitFetch" | "done"
    req,        \* handler: the raw request as received by the server
    args,       \* handler: the arguments after schema parsing (defaults applied)
    fetches,    \* handler: provider fetches started for the current request
    resp,       \* handler: how the provider call ended (rows, quote, articles, error)
    result,     \* handler: what the handler returned (or the schema rejection)
    heap,       \* caller: the arrays a computation is given (closingPrices, dates)
    given,      \* caller: those arrays as they were handed over
    op,         \* caller: the computation that is repeated
    outs,       \* caller: what each run of the computation returned
    deployed,   \* http: which POST /mcp handler runs, "build" or "src"
    transports, \* http: the module-level map from session id to transport
    made,       \* http: the transports created so far, each with its session id,
                \*       its server and the POSTs handed to its handleRequest
    posts,      \* http: the POSTs that have arrived, each with its handler's state
    visible     \* http: the session ids some response has carried to a client

engineVars == <<call, ret>>
handlerVars == <<pc, req, args, fetches, resp, result>>
callerVars == <<heap, given, op, outs>>
httpVars == <<deployed, transports, made, posts, visible>>
vars == <<engineVars, handlerVars, callerVars, httpVars>>

---------------------------------------------------------------------------
(* Bounds of the model *)

MaxLen == 3         \* longest bar sequence whose closes are enumerated freely
MaxPrice == 2       \* closes are drawn from 1..MaxPrice
MaxParam == 3       \* largest period handed to a wrapper called on its own

---------------------------------------------------------------------------
(* JavaScript values and array operations used by the source *)

Undefined == [undef |-> TRUE]

IsDefined(v) == v # Undefined

Max(a, b) == IF a > b THEN a ELSE b
Min(a, b) == IF a < b THEN a ELSE b

\* arr[i] for a JavaScript index i: undefined outside the array
At(arr, i) == IF i >= 0 /\ i < Len(arr) THEN arr[i + 1] ELSE Undefined

\* arr.slice(start): a negative start counts from the end
Slice(arr, start) ==
    LET from == IF start < 0 THEN Max(Len(arr) + start, 0) ELSE Min(start, Len(arr))
    IN SubSeq(arr, from + 1, Len(arr))

\* arr.pop(): the last element, undefined on an empty array
Pop(arr) == IF Len(arr) = 0 THEN Undefined ELSE arr[Len(arr)]

\* arr.filter(value => value !== undefined)
FilterDefined(arr) == SelectSeq(arr, IsDefined)

\* values[lo] + ... + values[hi]
RECURSIVE SumRange(_, _, _)
SumRange(values, lo, hi) ==
    IF lo > hi THEN 0
    ELSE IF lo = hi THEN values[lo]
    ELSE LET mid == (lo + hi) \div 2
         IN SumRange(values, lo, mid) + SumRange(values, mid + 1, hi)

---------------------------------------------------------------------------
(* The technicalindicators library, as the wrappers and handlers use it.   *)
(* A value is a record carrying the step it belongs to; an SMA value also  *)
(* carries the mean as the fraction num / den.                             *)

\* SMA.calculate: a generator fed one tick at a time.  It keeps a running sum
\* over a list that starts as [0]; ticks 1..period-1 only accumulate, every later
\* tick drops the oldest element, adds the new one and yields sum / period.
SMATick(values, period, st, t) ==
    IF t < period
    THEN [sum |-> st.sum + values[t], out |-> st.out]
    ELSE LET width == Max(1, period)
             shifted == IF t > width THEN values[t - width] ELSE 0
             s == st.sum - shifted + values[t]
         IN [sum |-> s, out |-> Append(st.out, [step |-> t, num |-> s, den |-> period])]

\* the generator's state after ticks lo..hi, taken in order from state st (the
\* first half is run to its end before the second half starts)
RECURSIVE SMAGenerator(_, _, _, _, _)
SMAGenerator(values, period, st, lo, hi) ==
    IF lo > hi THEN st
    ELSE IF lo = hi THEN SMATick(values, period, st, lo)
    ELSE LET mid == (lo + hi) \div 2
             half == SMAGenerator(values, period, st, lo, mid)
         IN IF Len(half.out) <= mid
            THEN SMAGenerator(values, period, half, mid + 1, hi)
            ELSE half

SMACalculate(values, period) ==
    SMAGenerator(values, period, [sum |-> 0, out |-> <<>>], 1, Len(values)).out

\* The library computes in floating point; the model keeps every value that is
\* not a plain mean as a fixed-point integer with Scale units to one.
Scale == 10 ^ 3

\* one tick of an exponential average over fixed-point values: the first period
\* ticks build the seed (their simple mean), every later tick moves the average
\* towards the tick by 2 / (period + 1) of the distance
EMATick(values, period, st, t) ==
    IF t < period
    THEN [sum |-> st.sum + values[t], ema |-> st.ema, out |-> st.out]
    ELSE IF t = period \/ period < 1
    THEN LET seed == (st.sum + values[t]) \div Max(1, period)
         IN [sum |-> st.sum + values[t], ema |-> seed, out |-> Append(st.out, seed)]
    ELSE LET ema == st.ema + (2 * (values[t] - st.ema)) \div (period + 1)
         IN [sum |-> st.sum, ema |-> ema, out |-> Append(st.out, ema)]

\* the state after ticks lo..hi, taken in order from state st
RECURSIVE EMAGenerator(_, _, _, _, _)
EMAGenerator(values, period, st, lo, hi) ==
    IF lo > hi THEN st
    ELSE IF lo = hi THEN EMATick(values, period, st, lo)
    ELSE LET mid == (lo + hi) \div 2
             half == EMAGenerator(values, period, st, lo, mid)
         IN IF Len(half.out) <= mid
            THEN EMAGenerator(values, period, half, mid + 1, hi)
            ELSE half

\* the averages of a fixed-point series, one per tick from tick period on
EMAValues(values, period) ==
    EMAGenerator(values, period, [sum |-> 0, ema |-> 0, out |-> <<>>], 1, Len(values)).out

Scaled(values) == [t \in 1..Len(values) |-> Scale * values[t]]

\* EMA.calculate: seeded by the SMA of the first period values, one value per
\* tick from tick period on.
EMACalculate(values, period) ==
    LET ema == EMAValues(Scaled(values), period)
    IN [k \in 1..Len(ema) |->
            [step |-> k + Max(1, period) - 1, num |-> ema[k], den |-> Scale]]

\* the value RSI.calculate yields for an average gain and an average loss, both
\* period-fold: 100 without losses, 0 without gains, otherwise
\* 100 - 100 / (1 + gain / loss) rounded to two decimals; in hundredths
RSIOf(gain, loss) ==
    IF loss = 0 THEN 100 * 100
    ELSE IF gain = 0 THEN 0
    ELSE LET d == gain + loss
             q == (100 * gain) \div d
             r == (100 * gain) % d
         IN 100 * q + (200 * r + d) \div (2 * d)

\* one tick of RSI.calculate: tick t brings the change from tick t - 1; the first
\* period changes are summed, every later change enters Wilder's average
\* avg' = (avg * (period - 1) + change) / period
RSITick(values, period, st, t) ==
    IF t = 1 THEN st
    ELSE LET change == values[t] - values[t - 1]
             g == Scale * Max(change, 0)
             l == Scale * Max(0 - change, 0)
         IN IF t - 1 < period
            THEN [gain |-> st.gain + g, loss |-> st.loss + l, out |-> st.out]
            ELSE LET gain == IF t - 1 = period THEN st.gain + g
                             ELSE (st.gain * (period - 1)) \div period + g
                     loss == IF t - 1 = period THEN st.loss + l
                             ELSE (st.loss * (period - 1)) \div period + l
                 IN [gain |-> gain, loss |-> loss,
                     out |-> Append(st.out, [step |-> t, num |-> RSIOf(gain, loss),
                                             den |-> 100])]

RECURSIVE RSIGenerator(_, _, _, _, _)
RSIGenerator(values, period, st, lo, hi) ==
    IF lo > hi THEN st
    ELSE IF lo = hi THEN RSITick(values, period, st, lo)
    ELSE LET mid == (lo + hi) \div 2
             half == RSIGenerator(values, period, st, lo, mid)
         IN IF Len(half.out) <= mid
            THEN RSIGenerator(values, period, half, mid + 1, hi)
            ELSE half

\* RSI.calculate: the first period ticks give period-1 changes and no value; one
\* value per tick from tick period + 1 on.
RSICalculate(values, period) ==
    RSIGenerator(values, period, [gain |-> 0, loss |-> 0, out |-> <<>>], 1, Len(values)).out

\* MACD.calculate: nothing for the first slowPeriod - 1 ticks, then one record
\* per tick.  MACD is the fast average minus the slow one, defined once both
\* are; signal is the EMA(signalPeriod) of the MACD values, so it and the
\* histogram are undefined until signalPeriod MACD values exist.
MACDCalculate(values, fastPeriod, slowPeriod, signalPeriod) ==
    LET first == Max(fastPeriod, slowPeriod)
        fast == EMAValues(Scaled(values), fastPeriod)
        slow == EMAValues(Scaled(values), slowPeriod)
        line == [j \in 1..Max(0, Len(values) - first + 1) |->
                    fast[first + j - fastPeriod] - slow[first + j - slowPeriod]]
        sig == EMAValues(line, signalPeriod)
    IN [k \in 1..Max(0, Len(values) - slowPeriod + 1) |->
        LET t == k + slowPeriod - 1
            hasMACD == t >= first
            hasSignal == t >= first + signalPeriod - 1
            m == line[t - first + 1]
            s == sig[t - first - signalPeriod + 2]
        IN [MACD      |-> IF hasMACD THEN [step |-> t, num |-> m, den |-> Scale]
                          ELSE Undefined,
            signal    |-> IF hasSignal THEN [step |-> t, num |-> s, den |-> Scale]
                          ELSE Undefined,
            histogram |-> IF hasSignal THEN [step |-> t, num |-> m - s, den |-> Scale]
                          ELSE Undefined]]

\* sum of the squares of values[lo..hi]
RECURSIVE SumSquares(_, _, _)
SumSquares(values, lo, hi) ==
    IF lo > hi THEN 0
    ELSE IF lo = hi THEN values[lo] * values[lo]
    ELSE LET mid == (lo + hi) \div 2
         IN SumSquares(values, lo, mid) + SumSquares(values, mid + 1, hi)

\* a band of the window of period values ending at tick t: mean + coef * sd with
\* sd the population standard deviation; kept as the window's sum and sum of
\* squares
Band(values, period, t, coef) ==
    [step |-> t, coef |-> coef, period |-> period,
     sum |-> SumRange(values, t - period + 1, t),
     sumsq |-> SumSquares(values, t - period + 1, t)]

\* BollingerBands.calculate: one record per tick from tick period on.
BollingerBandsCalculate(values, period, stdDev) ==
    [k \in 1..Max(0, Len(values) - Max(1, period) + 1) |->
        LET p == Max(1, period)
            t == k + p - 1
        IN [upper  |-> Band(values, p, t, stdDev),
            middle |-> Band(values, p, t, 0),
            lower  |-> Band(values, p, t, 0 - stdDev)]]

---------------------------------------------------------------------------
(* functions/technicalIndicator.ts: the wrappers *)

\* a wrapper that hands the library a window one too long
SMAOffByOne(data, period) == SMACalculate(data, period + 1)

SMA(data, period) == SMACalculate(data, period)

EMA(data, period) == EMACalculate(data, period)

RSI(data, period) == RSICalculate(data, period)

MACD(data, shortPeriod, longPeriod, signalPeriod) ==
    LET macd == MACDCalculate(data, shortPeriod, longPeriod, signalPeriod)
    IN [macd      |-> FilterDefined([k \in 1..Len(macd) |-> macd[k].MACD]),
        signal    |-> FilterDefined([k \in 1..Len(macd) |-> macd[k].signal]),
        histogram |-> FilterDefined([k \in 1..Len(macd) |-> macd[k].histogram])]

BollingerBands(data, period, stdDev) ==
    LET bb == BollingerBandsCalculate(data, period, stdDev)
    IN [upper  |-> FilterDefined([k \in 1..Len(bb) |-> bb[k].upper]),
        middle |-> FilterDefined([k \in 1..Len(bb) |-> bb[k].middle]),
        lower  |-> FilterDefined([k \in 1..Len(bb) |-> bb[k].lower])]

---------------------------------------------------------------------------
(* Inputs *)

Prices == 1..MaxPrice

\* every closing series of length 0..MaxLen over Prices
ShortSeries == UNION {[1..n -> Prices] : n \in 0..MaxLen}

Params == 1..MaxParam

---------------------------------------------------------------------------
(* The indicator engine on its own: each wrapper called with enumerated inputs *)

NoCall == [fn |-> "none"]

NoRequest == [tool |-> "none"]
NoResponse == [kind |-> "none"]
NoResult == [kind |-> "none"]

HandlerIdle ==
    /\ pc = "idle"
    /\ req = NoRequest
    /\ args = NoRequest
    /\ fetches = 0
    /\ resp = NoResponse
    /\ result = NoResult

\* no computation is being repeated
CallerIdle ==
    /\ heap = [closingPrices |-> <<>>, dates |-> <<>>]
    /\ given = heap
    /\ op = NoCall
    /\ outs = <<>>

\* no HTTP server is running
HttpIdle ==
    /\ deployed = "none"
    /\ transports = <<>>
    /\ made = <<>>
    /\ posts = <<>>
    /\ visible = {}

EngineInit ==
    /\ call = NoCall
    /\ ret = Undefined
    /\ HandlerIdle
    /\ CallerIdle
    /\ HttpIdle

CallSMA ==
    /\ call = NoCall
    /\ \E data \in ShortSeries, period \in 0..MaxParam :
            /\ call' = [fn |-> "SMA", data |-> data, period |-> period]
            /\ ret' = SMA(data, period)
            /\ UNCHANGED <<handlerVars, callerVars, httpVars>>

CallEMA ==
    /\ call = NoCall
    /\ \E data \in ShortSeries, period \in Params :
            /\ call' = [fn |-> "EMA", data |-> data, period |-> period]
            /\ ret' = EMA(data, period)
            /\ UNCHANGED <<handlerVars, callerVars, httpVars>>

CallRSI ==
    /\ call = NoCall
    /\ \E data \in ShortSeries, period \in Params :
            /\ call' = [fn |-> "RSI", data |-> data, period |-> period]
            /\ ret' = RSI(data, period)
            /\ UNCHANGED <<handlerVars, callerVars, httpVars>>

CallMACD ==
    /\ call = NoCall
    /\ \E data \in ShortSeries, fast \in Params, slow \in Params, signal \in Params :
            /\ fast <= slow
            /\ call' = [fn |-> "MACD", data |-> data,
                        fast |-> fast, slow |-> slow, signal |-> signal]
            /\ ret' = MACD(data, fast, slow, signal)
            /\ UNCHANGED <<handlerVars, callerVars, httpVars>>

CallBollingerBands ==
    /\ call = NoCall
    /\ \E data \in ShortSeries, period \in Params :
            /\ call' = [fn |-> "BollingerBands", data |-> data, period |-> period]
            /\ ret' = BollingerBands(data, period, 2)
            /\ UNCHANGED <<handlerVars, callerVars, httpVars>>

\* the caller has taken the returned value
EngineReturn ==
    /\ call # NoCall
    /\ call' = NoCall
    /\ ret' = Undefined
    /\ UNCHANGED <<handlerVars, callerVars, httpVars>>

EngineNext ==
    \/ CallSMA
    \/ CallEMA
    \/ CallRSI
    \/ CallMACD
    \/ CallBollingerBands
    \/ EngineReturn

SpecEngine == EngineInit /\ [][EngineNext]_vars

MACDReturned == call.fn = "MACD"

\* C1: in the arrays MACD(closes, fast, slow, signal) returns, macd[j], signal[j]
\* and histogram[j] belong to the same input step, for every index j the arrays
\* share (an undefined leading entry is dropped from all three or from none).
C1_MACDSameStep ==
    MACDReturned =>
        \A j \in 1..Min(Len(ret.macd), Min(Len(ret.signal), Len(ret.histogram))) :
            /\ ret.macd[j].step = ret.signal[j].step
            /\ ret.macd[j].step = ret.histogram[j].step

\* C2: for a closing series of length >= slow + signal, the three arrays
\* MACD returns have the same length.
C2_MACDEqualLengths ==
    (MACDReturned /\ Len(call.data) >= call.slow + call.signal) =>
        /\ Len(ret.macd) = Len(ret.signal)
        /\ Len(ret.signal) = Len(ret.histogram)

---------------------------------------------------------------------------
(* Requests as they arrive: every argument is a JSON value or is absent *)

Str(s) == [t |-> "string", v |-> s]
Num(n) == [t |-> "number", n |-> n]
Absent == [t |-> "undefined"]

\* z.string()
ZString(x) == x.t = "string"

\* z.enum([...])
ZEnum(x, allowed) == x.t = "string" /\ x.v \in allowed

MinPeriod == 1
MaxPeriod == 200
DefaultPeriod == 14

\* z.number().min(1).max(200).default(14)
ZPeriod(x) == x.t = "undefined" \/ (x.t = "number" /\ x.n >= MinPeriod /\ x.n <= MaxPeriod)

PeriodOf(x) == IF x.t = "undefined" THEN DefaultPeriod ELSE x.n

Indicators == {"sma", "ema", "rsi", "macd", "bollinger"}
Intervals == {"1d", "1wk", "1mo"}

HistoricalTools == {"get-historical-data", "get-technical-indicators", "get-technical-analysis"}
Tools == {"get-stock-price", "get-news"} \cup HistoricalTools

\* the input schema registered with each tool; the server parses the arguments
\* with it before it calls the handler
SchemaAccepts(r) ==
    CASE r.tool = "get-stock-price" -> ZString(r.symbol)
      [] r.tool = "get-historical-data" ->
            ZString(r.symbol) /\ ZString(r.startDate) /\ ZString(r.endDate)
                /\ ZEnum(r.interval, Intervals)
      [] r.tool = "get-news" ->
            ZString(r.stockName) /\ ZString(r.startDate) /\ ZString(r.endDate)
      [] r.tool = "get-technical-indicators" ->
            ZString(r.symbol) /\ ZEnum(r.indicator, Indicators) /\ ZPeriod(r.period)
                /\ ZString(r.startDate) /\ ZString(r.endDate)
      [] r.tool = "get-technical-analysis" ->
            ZString(r.symbol) /\ ZString(r.startDate) /\ ZString(r.endDate)

\* the parsed arguments the handler is called with
ParsedArgs(r) ==
    [impl |-> r.impl, tool |-> r.tool,
     indicator |-> IF r.tool = "get-technical-indicators" THEN r.indicator.v ELSE "none",
     period |-> IF r.tool = "get-technical-indicators" THEN PeriodOf(r.period) ELSE 0]

CalendarDates == {"2024-01-02", "2024-03-01"}
IsCalendarDate(x) == x.t = "string" /\ x.v \in CalendarDates

SymbolInputs == {Str("AAPL"), Absent}
DateInputs == {Str("2024-01-02"), Str("2024-03-01"), Str("soon")}
IndicatorInputs == {Str(i) : i \in Indicators} \cup {Str("vwap"), Absent}
PeriodInputs == {Absent} \cup {Num(n) : n \in (0..MaxLen) \cup {MaxPeriod, MaxPeriod + 1}}
IntervalInputs == {Str("1d"), Str("1h")}

\* tools.ts is served over HTTP, index.ts over stdio; both register the tools
Impls == {"tools", "index"}

Requests ==
    {[impl |-> i, tool |-> "get-stock-price", symbol |-> s] :
        i \in Impls, s \in SymbolInputs}
    \cup
    {[impl |-> i, tool |-> "get-news", stockName |-> s, startDate |-> d1, endDate |-> d2] :
        i \in Impls, s \in SymbolInputs, d1 \in DateInputs, d2 \in DateInputs \cup {Absent}}
    \cup
    {[impl |-> i, tool |-> "get-historical-data", symbol |-> Str("AAPL"),
      startDate |-> d1, endDate |-> d2, interval |-> v] :
        i \in Impls, d1 \in DateInputs, d2 \in DateInputs \cup {Absent}, v \in IntervalInputs}
    \cup
    {[impl |-> i, tool |-> "get-technical-indicators", symbol |-> Str("AAPL"),
      indicator |-> k, period |-> p, startDate |-> d1, endDate |-> d2] :
        i \in Impls, k \in IndicatorInputs, p \in PeriodInputs,
        d1 \in DateInputs, d2 \in DateInputs \cup {Absent}}
    \cup
    {[impl |-> i, tool |-> "get-technical-analysis", symbol |-> Str("AAPL"),
      startDate |-> d1, endDate |-> d2] :
        i \in Impls, d1 \in DateInputs, d2 \in DateInputs \cup {Absent}}

---------------------------------------------------------------------------
(* What the providers return *)

\* bar counts around the warm-ups of the fixed-period indicators; the closes of
\* these longer series follow one pattern
LongLens == {19, 20, 34, 51, 200}
LongSeries == {[i \in 1..n |-> 1 + (i % MaxPrice)] : n \in LongLens}

DayOf(i) == 20240100 + i

\* the volume every bar has unless a series says otherwise, and the volumes a
\* latest bar takes around 0.5 and 1.5 times the trailing average
UsualVolume == 17 * 19
LatestVolumes == {0, 152, 153, 154, UsualVolume, 512, 513, 514}

\* yahooFinance.historical: bars in ascending date order
BarsOf(closes, latestVolume) ==
    [i \in 1..Len(closes) |->
        [date |-> DayOf(i), close |-> closes[i],
         volume |-> IF i = Len(closes) THEN latestVolume ELSE UsualVolume]]

RowsOf(closes) == BarsOf(closes, UsualVolume)

RowSeqs == {RowsOf(c) : c \in ShortSeries \cup LongSeries}

\* Series for get-technical-analysis.  Trends: steady rises and falls, with and
\* without a last bar against the trend, and flat runs with and without a
\* last bar away from them.
TrendLens == {50, 60, 200}
TrendSeries ==
    UNION {{[i \in 1..n |-> i],
            [i \in 1..n |-> n + 1 - i],
            [i \in 1..n |-> IF i = n THEN n - 15 ELSE i],
            [i \in 1..n |-> IF i = n THEN 16 ELSE n + 1 - i],
            [i \in 1..n |-> 100],
            [i \in 1..n |-> IF i = n THEN 103 ELSE 98],
            [i \in 1..n |-> IF i = n THEN 93 ELSE 98]} : n \in TrendLens}

\* fifteen bars whose fourteen changes are gains and losses in the ratios 7:3,
\* 3:7 and 1:1
RSISeries ==
    {<<1, 2, 3, 4, 5, 6, 7, 8, 7, 6, 5, 5, 5, 5, 5>>,
     <<8, 7, 6, 5, 4, 3, 2, 1, 2, 3, 4, 4, 4, 4, 4>>,
     <<1, 2, 1, 2, 1, 2, 1, 2, 1, 2, 1, 2, 1, 2, 1>>}

\* Swings: a flat run at 98 followed by a tail of turning points
MaxTail == 3
Levels == {98, 100, 101, 103}
Peaks == {100, 101, 103}
Troughs == {95, 97, 98}
Pad(n) == [i \in 1..n |-> 98]
Tails == UNION {[1..n -> Levels] : n \in 0..MaxTail}
Zigzags == {<<p1, t1, p2, t2, p3, t3, 100>> :
                p1 \in Peaks, t1 \in Troughs, p2 \in Peaks, t2 \in Troughs,
                p3 \in Peaks, t3 \in Troughs}
SwingSeries ==
    {Pad(n) \o t : n \in {9, 10, 27}, t \in Tails}
    \cup {Pad(10) \o t \o Pad(30) : t \in Tails}
    \cup {Pad(10) \o z : z \in Zigzags}

AnalysisSeries == ShortSeries \cup LongSeries \cup TrendSeries \cup RSISeries \cup SwingSeries

\* the volume of the latest bar varies on a few of the series only
VolumeSeries ==
    {s \in ShortSeries \cup LongSeries : Len(s) \in {1, MaxLen, 19, 20}}
    \cup {[i \in 1..60 |-> IF i = 60 THEN 103 ELSE 98]}

AnalysisRowSeqs ==
    {RowsOf(c) : c \in AnalysisSeries}
    \cup {BarsOf(c, v) : c \in VolumeSeries, v \in LatestVolumes}

\* yahooFinance.quote
Quotes == {[kind |-> "quote", price |-> p] : p \in Prices}

\* newsapi.v2.everything: some number of articles
NewsShown == 5
ArticleCounts == {0, 1, NewsShown + 1}

---------------------------------------------------------------------------
(* The handlers of get-technical-indicators *)

ShownPoints == 10
FastPeriod == 12
SlowPeriod == 26
SignalPeriod == 9
StdDev == 2

\* historicalData.map(day => day.close), historicalData.map(day => day.date)
ClosesOf(rows) == [i \in 1..Len(rows) |-> rows[i].close]
DatesOf(rows) == [i \in 1..Len(rows) |-> rows[i].date]

\* a handler without the emptiness check
IsEmptyUnchecked(rows) == FALSE

\* !historicalData.length
IsEmpty(rows) == Len(rows) = 0

\* closingPrices[i] as a value: the close itself, standing at its own step
PriceAt(closingPrices, i) ==
    IF i >= 0 /\ i < Len(closingPrices)
    THEN [step |-> i + 1, num |-> closingPrices[i + 1], den |-> 1]
    ELSE Undefined

\* x.toFixed(2) throws a TypeError when x is undefined
FormatThrows(shown) ==
    \E k \in 1..Len(shown) : \E f \in DOMAIN shown[k].v : shown[k].v[f] = Undefined

Thrown(calls) == [kind |-> "throw", calls |-> calls]

\* the footer counting the aligned points
IndicatorReportCountingPoints(calls, series, points, dates) ==
    LET shown == Slice(points, 0 - ShownPoints)
    IN IF FormatThrows(shown) THEN Thrown(calls)
       ELSE [kind |-> "report", calls |-> calls, series |-> series,
             points |-> points, shown |-> shown, days |-> Len(points)]

\* the text the handler returns: the last ShownPoints points, and the footer with
\* the number of fetched bars
IndicatorReport(calls, series, points, dates) ==
    LET shown == Slice(points, 0 - ShownPoints)
    IN IF FormatThrows(shown) THEN Thrown(calls)
       ELSE [kind |-> "report", calls |-> calls, series |-> series,
             points |-> points, shown |-> shown, days |-> Len(dates)]

\* dates sliced one bar too early in the sma case
ToolsAlignStartEarly(indicator, period) ==
    CASE indicator = "sma" -> period - 2
      [] indicator = "ema" -> period - 1
      [] indicator = "rsi" -> period
      [] indicator = "macd" -> SlowPeriod + SignalPeriod - 2
      [] indicator = "bollinger" -> period - 1

\* tools.ts: where each case starts slicing the dates
ToolsAlignStart(indicator, period) ==
    CASE indicator = "sma" -> period - 1
      [] indicator = "ema" -> period - 1
      [] indicator = "rsi" -> period
      [] indicator = "macd" -> SlowPeriod + SignalPeriod - 2
      [] indicator = "bollinger" -> period - 1

\* tools.ts, the switch over the indicator
ToolsIndicator(indicator, period, closingPrices, dates) ==
    LET sliced == Slice(dates, ToolsAlignStart(indicator, period))
    IN CASE indicator = "sma" ->
              LET smaValues == SMA(closingPrices, period)
              IN IndicatorReport({"SMA"}, [sma |-> smaValues],
                     [k \in 1..Len(sliced) |-> LET date == sliced[k] i == k - 1 IN
                         [date |-> date, v |-> [sma |-> At(smaValues, i)]]], dates)
         [] indicator = "ema" ->
              LET emaValues == EMA(closingPrices, period)
              IN IndicatorReport({"EMA"}, [ema |-> emaValues],
                     [k \in 1..Len(sliced) |-> LET date == sliced[k] i == k - 1 IN
                         [date |-> date, v |-> [ema |-> At(emaValues, i)]]], dates)
         [] indicator = "rsi" ->
              LET rsiValues == RSI(closingPrices, period)
              IN IndicatorReport({"RSI"}, [rsi |-> rsiValues],
                     [k \in 1..Len(sliced) |-> LET date == sliced[k] i == k - 1 IN
                         [date |-> date, v |-> [rsi |-> At(rsiValues, i)]]], dates)
         [] indicator = "macd" ->
              LET macdValues == MACD(closingPrices, FastPeriod, SlowPeriod, SignalPeriod)
              IN IndicatorReport({"MACD"}, macdValues,
                     [k \in 1..Len(sliced) |-> LET date == sliced[k] i == k - 1 IN
                         [date |-> date,
                          v |-> [macd      |-> At(macdValues.macd, i),
                                 signal    |-> At(macdValues.signal, i),
                                 histogram |-> At(macdValues.histogram, i)]]], dates)
         [] indicator = "bollinger" ->
              LET bbandsValues == BollingerBands(closingPrices, period, StdDev)
              IN IndicatorReport({"BollingerBands"}, bbandsValues,
                     [k \in 1..Len(sliced) |-> LET date == sliced[k] i == k - 1 IN
                         [date |-> date,
                          v |-> [upper  |-> At(bbandsValues.upper, i),
                                 middle |-> At(bbandsValues.middle, i),
                                 lower  |-> At(bbandsValues.lower, i),
                                 price  |-> PriceAt(closingPrices, period - 1 + i)]]], dates)

\* index.ts: where each case starts slicing the dates
IndexAlignStart(indicator, period) ==
    CASE indicator = "sma" -> period - 1
      [] indicator = "ema" -> period - 1
      [] indicator = "rsi" -> period
      [] indicator = "macd" -> SlowPeriod + SignalPeriod - 2
      [] indicator = "bollinger" -> period - 1

\* rec.field throws a TypeError when rec is undefined
FieldOf(rec, field) == rec[field]

\* index.ts, the switch over the indicator: the library is called directly and
\* its records are indexed as they are
IndexIndicator(indicator, period, closingPrices, dates) ==
    LET sliced == Slice(dates, IndexAlignStart(indicator, period))
    IN CASE indicator = "sma" ->
              LET smaValues == SMACalculate(closingPrices, period)
              IN IndicatorReport({"SMA"}, [sma |-> smaValues],
                     [k \in 1..Len(sliced) |-> LET date == sliced[k] i == k - 1 IN
                         [date |-> date, v |-> [sma |-> At(smaValues, i)]]], dates)
         [] indicator = "ema" ->
              LET emaValues == EMACalculate(closingPrices, period)
              IN IndicatorReport({"EMA"}, [ema |-> emaValues],
                     [k \in 1..Len(sliced) |-> LET date == sliced[k] i == k - 1 IN
                         [date |-> date, v |-> [ema |-> At(emaValues, i)]]], dates)
         [] indicator = "rsi" ->
              LET rsiValues == RSICalculate(closingPrices, period)
              IN IndicatorReport({"RSI"}, [rsi |-> rsiValues],
                     [k \in 1..Len(sliced) |-> LET date == sliced[k] i == k - 1 IN
                         [date |-> date, v |-> [rsi |-> At(rsiValues, i)]]], dates)
         [] indicator = "macd" ->
              LET macdValues == MACDCalculate(closingPrices, FastPeriod, SlowPeriod,
                                              SignalPeriod)
              IN IF \E k \in 1..Len(sliced) : At(macdValues, k - 1) = Undefined
                 THEN Thrown({"MACD"})
                 ELSE IndicatorReport({"MACD"}, [records |-> macdValues],
                          [k \in 1..Len(sliced) |-> LET date == sliced[k] i == k - 1 IN
                              [date |-> date,
                               v |-> [macd      |-> FieldOf(At(macdValues, i), "MACD"),
                                      signal    |-> FieldOf(At(macdValues, i), "signal"),
                                      histogram |-> FieldOf(At(macdValues, i), "histogram")]]],
                          dates)
         [] indicator = "bollinger" ->
              LET bbandsValues == BollingerBandsCalculate(closingPrices, period, StdDev)
              IN IF \E k \in 1..Len(sliced) : At(bbandsValues, k - 1) = Undefined
                 THEN Thrown({"BollingerBands"})
                 ELSE IndicatorReport({"BollingerBands"}, [records |-> bbandsValues],
                          [k \in 1..Len(sliced) |-> LET date == sliced[k] i == k - 1 IN
                              [date |-> date,
                               v |-> [upper  |-> FieldOf(At(bbandsValues, i), "upper"),
                                      middle |-> FieldOf(At(bbandsValues, i), "middle"),
                                      lower  |-> FieldOf(At(bbandsValues, i), "lower"),
                                      price  |-> PriceAt(closingPrices, period - 1 + i)]]],
                          dates)

---------------------------------------------------------------------------
(* The handlers of get-technical-analysis: the latest value of each indicator *)

SMAShort == 20
SMAMid == 50
SMALong == 200
EMAFast == 12
EMASlow == 26
RSIPeriod == 14
BBPeriod == 20

---------------------------------------------------------------------------
(* JavaScript numbers as the analysis compares them.  A number is a record    *)
(* with num and den (den > 0), or a band mean + coef * sd of a window.        *)

Number(n) == [num |-> n, den |-> 1]

\* x ?? 0 and, for a number, x || 0
OrZero(x) == IF IsDefined(x) /\ x.num # 0 THEN x ELSE Number(0)

\* a > b and a < b: false when either side is undefined (NaN)
Gt(a, b) == IsDefined(a) /\ IsDefined(b) /\ a.num * b.den > b.num * a.den
Lt(a, b) == IsDefined(a) /\ IsDefined(b) /\ a.num * b.den < b.num * a.den

\* period^2 times the variance of a band's window
Spread(band) == band.period * band.sumsq - band.sum * band.sum

\* period * den times (x - mean of the band's window)
Excess(x, band) == x.num * band.period - band.sum * x.den

\* x > band and x < band, decided on the squares
GtBand(x, band) ==
    /\ IsDefined(x) /\ IsDefined(band)
    /\ LET d == Excess(x, band)
           r == band.coef * band.coef * Spread(band) * x.den * x.den
       IN IF band.coef >= 0 THEN d > 0 /\ d * d > r ELSE d >= 0 \/ d * d < r

LtBand(x, band) ==
    /\ IsDefined(x) /\ IsDefined(band)
    /\ LET d == Excess(x, band)
           r == band.coef * band.coef * Spread(band) * x.den * x.den
       IN IF band.coef >= 0 THEN d < 0 \/ d * d < r ELSE d < 0 /\ d * d > r

\* upper - lower of one window: (upper.coef - lower.coef) * sd
BandDiff(upper, lower) ==
    IF IsDefined(upper) /\ IsDefined(lower)
    THEN [coef |-> upper.coef - lower.coef, period |-> upper.period,
          sum |-> upper.sum, sumsq |-> upper.sumsq]
    ELSE Undefined

\* width < limit for width = coef * sd, coef >= 0
WidthBelow(width, limit) ==
    /\ IsDefined(width)
    /\ width.coef * width.coef * Spread(width) < limit * limit * width.period * width.period

\* (width / middle) * 100 < limit, with middle the mean of the same window
RelativeWidthBelow(width, limit) ==
    /\ IsDefined(width)
    /\ width.sum > 0
    /\ 100 * 100 * width.coef * width.coef * Spread(width)
          < limit * limit * width.sum * width.sum

\* String(x) of a fixed-point number, as character codes: "-" is 45, "." is 46,
\* the digits are 48..57; no fraction digits after the last non-zero one
RECURSIVE Digits(_)
Digits(n) == IF n < 10 THEN <<48 + n>> ELSE Append(Digits(n \div 10), 48 + (n % 10))

RECURSIVE FractionDigits(_, _)
FractionDigits(rest, den) ==
    IF rest = 0 THEN <<>>
    ELSE <<48 + (10 * rest) \div den>> \o FractionDigits((10 * rest) % den, den)

NumberToString(x) ==
    LET a == IF x.num < 0 THEN 0 - x.num ELSE x.num
        fraction == FractionDigits(a % x.den, x.den)
    IN (IF x.num < 0 THEN <<45>> ELSE <<>>)
       \o Digits(a \div x.den)
       \o (IF fraction = <<>> THEN <<>> ELSE <<46>> \o fraction)

\* arr.slice(lo - 1, hi).join(","): "," is 44
RECURSIVE JoinRange(_, _, _)
JoinRange(arr, lo, hi) ==
    IF lo > hi THEN <<>>
    ELSE IF lo = hi THEN NumberToString(arr[lo])
    ELSE LET mid == (lo + hi) \div 2
         IN JoinRange(arr, lo, mid) \o <<44>> \o JoinRange(arr, mid + 1, hi)

\* String(arr) of an array of numbers
ArrayToString(arr) == JoinRange(arr, 1, Len(arr))

\* a > b on strings: by the first code unit that differs, a proper prefix being
\* the smaller
StringGt(a, b) ==
    LET differ == {i \in 1..Min(Len(a), Len(b)) : a[i] # b[i]}
    IN IF differ = {} THEN Len(a) > Len(b)
       ELSE LET i == CHOOSE k \in differ : \A j \in differ : k <= j
            IN a[i] > b[i]

\* a > b on two arrays: both are converted to strings
ArrayGt(a, b) == StringGt(ArrayToString(a), ArrayToString(b))

\* arr after arr.pop()
Popped(arr) == IF Len(arr) = 0 THEN arr ELSE SubSeq(arr, 1, Len(arr) - 1)

---------------------------------------------------------------------------
(* The rules of get-technical-analysis, each giving the observations it pushes *)

Says(rule, what) == [rule |-> rule, says |-> what]

\* the rule with the price held against SMA(50)
ToolsMovingAverageRuleLoose(latestPrice, sma20, sma50) ==
    IF Gt(latestPrice, sma50) /\ Gt(sma20, sma50) THEN <<Says("ma", "positive")>>
    ELSE IF Lt(latestPrice, sma50) /\ Lt(sma20, sma50) THEN <<Says("ma", "negative")>>
    ELSE <<>>

\* tools.ts, Moving Average Analysis
ToolsMovingAverageRule(latestPrice, sma20, sma50) ==
    IF IsDefined(sma20) /\ IsDefined(sma50) /\ Gt(latestPrice, sma20) /\ Gt(sma20, sma50)
    THEN <<Says("ma", "positive")>>
    ELSE IF IsDefined(sma20) /\ IsDefined(sma50) /\ Lt(latestPrice, sma20)
            /\ Lt(sma20, sma50)
    THEN <<Says("ma", "negative")>>
    ELSE <<>>

\* the rule silent while either average is unavailable
ToolsCrossRuleChecked(sma50, sma200) ==
    IF IsDefined(sma50) /\ IsDefined(sma200) /\ Gt(sma50, sma200)
    THEN <<Says("cross", "golden")>>
    ELSE IF IsDefined(sma50) /\ IsDefined(sma200) /\ Lt(sma50, sma200)
    THEN <<Says("cross", "death")>>
    ELSE <<>>

\* tools.ts, the SMA(50) / SMA(200) rule
ToolsCrossRule(sma50, sma200) ==
    IF Gt(OrZero(sma50), OrZero(sma200)) THEN <<Says("cross", "golden")>>
    ELSE IF Lt(OrZero(sma50), OrZero(sma200)) THEN <<Says("cross", "death")>>
    ELSE <<>>

\* the rule with the bounds counted in
RSIRuleInclusive(rsi14) ==
    IF ~Lt(rsi14, Number(70)) THEN <<Says("rsi", "overbought")>>
    ELSE IF ~Gt(rsi14, Number(30)) THEN <<Says("rsi", "oversold")>>
    ELSE <<[rule |-> "rsi", says |-> "neutral", value |-> rsi14]>>

\* RSI Analysis, the same in both files once rsi14 has its zero
RSIRule(rsi14) ==
    IF Gt(rsi14, Number(70)) THEN <<Says("rsi", "overbought")>>
    ELSE IF Lt(rsi14, Number(30)) THEN <<Says("rsi", "oversold")>>
    ELSE <<[rule |-> "rsi", says |-> "neutral", value |-> rsi14]>>

\* tools.ts, MACD Analysis: macdResult is the wrapper's record of arrays, each
\* already shortened by its pop(); the two arrays are compared
ToolsMACDRule(macdResult) ==
    IF ArrayGt(macdResult.macd, macdResult.signal)
    THEN <<Says("macd", "bullish")>>
    ELSE <<Says("macd", "bearish")>>

\* tools.ts, Bollinger Bands Analysis
ToolsBollingerRule(latestPrice, bbandsUpper, bbandsLower) ==
    IF GtBand(latestPrice, bbandsUpper) THEN <<Says("bollinger", "above")>>
    ELSE IF LtBand(latestPrice, bbandsLower) THEN <<Says("bollinger", "below")>>
    ELSE LET bandWidth == BandDiff(bbandsUpper, bbandsLower)
         IN IF WidthBelow(bandWidth, 10) THEN <<Says("bollinger", "contracting")>>
            ELSE <<>>

\* index.ts, Moving Average Analysis
IndexMovingAverageRule(latestPrice, sma20, sma50) ==
    IF Gt(latestPrice, sma20) /\ Gt(sma20, sma50) THEN <<Says("ma", "positive")>>
    ELSE IF Lt(latestPrice, sma20) /\ Lt(sma20, sma50) THEN <<Says("ma", "negative")>>
    ELSE <<>>

\* index.ts, the SMA(50) / SMA(200) rule
IndexCrossRule(sma50, sma200) ==
    IF Gt(sma50, sma200) THEN <<Says("cross", "golden")>>
    ELSE IF Lt(sma50, sma200) THEN <<Says("cross", "death")>>
    ELSE <<>>

\* index.ts, MACD Analysis: macdResult is the library's latest record, if any
IndexMACDRule(macdResult) ==
    IF IsDefined(macdResult) /\ Gt(macdResult.MACD, OrZero(macdResult.signal))
    THEN <<Says("macd", "bullish")>>
    ELSE <<Says("macd", "bearish")>>

\* index.ts, Bollinger Bands Analysis (bbands is defined here)
IndexBollingerRule(latestPrice, bbands) ==
    IF GtBand(latestPrice, bbands.upper) THEN <<Says("bollinger", "above")>>
    ELSE IF LtBand(latestPrice, bbands.lower) THEN <<Says("bollinger", "below")>>
    ELSE LET bandWidth == BandDiff(bbands.upper, bbands.lower)
         IN IF RelativeWidthBelow(bandWidth, 10)
            THEN <<Says("bollinger", "contracting")>>
            ELSE <<>>

\* Support/Resistance Analysis, the same in both files
RecentBars == 30
\* a scan that starts one index early
FirstScannedEarly == 10 - 1
FirstScanned == 10
KeptLevels == 2

\* Math.abs(level - potential) / potential < 0.01
IsSimilar(level, potential) ==
    LET d == IF level > potential THEN level - potential ELSE potential - level
    IN 100 * d < potential

HasSimilar(levels, potential) ==
    \E k \in 1..Len(levels) : IsSimilar(levels[k], potential)

\* the body of the loop for index i of recentPrices (counted from 0)
ScanStep(recentPrices, i, levels) ==
    LET here == recentPrices[i + 1]
        before == recentPrices[i]
        after == recentPrices[i + 2]
        resistance ==
            IF here > before /\ here > after /\ ~HasSimilar(levels.resistance, here)
            THEN Append(levels.resistance, here)
            ELSE levels.resistance
        support ==
            IF here < before /\ here < after /\ ~HasSimilar(levels.support, here)
            THEN Append(levels.support, here)
            ELSE levels.support
    IN [resistance |-> resistance, support |-> support]

\* for (let i = first; i < recentPrices.length - 1; i++)
RECURSIVE ScanFrom(_, _, _)
ScanFrom(recentPrices, i, levels) ==
    IF i < Len(recentPrices) - 1
    THEN ScanFrom(recentPrices, i + 1, ScanStep(recentPrices, i, levels))
    ELSE levels

\* levels.sort((a, b) => b - a)
RECURSIVE SortDescending(_)
SortDescending(levels) ==
    IF Len(levels) = 0 THEN levels
    ELSE LET k == CHOOSE i \in 1..Len(levels) : \A j \in 1..Len(levels) : levels[i] >= levels[j]
         IN <<levels[k]>> \o SortDescending(SubSeq(levels, 1, k - 1)
                                             \o SubSeq(levels, k + 1, Len(levels)))

\* the first levels of the sorted list
SignificantFromTop(levels) ==
    SubSeq(levels, 1, Min(KeptLevels, Len(levels)))

\* resistanceLevels.slice(0, Math.min(2, resistanceLevels.length)), [] when empty
SignificantResistance(resistanceLevels) ==
    IF Len(resistanceLevels) > 0
    THEN SubSeq(resistanceLevels, 1, Min(KeptLevels, Len(resistanceLevels)))
    ELSE <<>>

\* supportLevels.slice(-Math.min(2, supportLevels.length)), [] when empty
SignificantSupport(supportLevels) ==
    IF Len(supportLevels) > 0
    THEN Slice(supportLevels, 0 - Min(KeptLevels, Len(supportLevels)))
    ELSE <<>>

\* the scan over the recent closes, the sort and the levels kept of each kind
SupportResistance(closes) ==
    LET recentPrices == Slice(closes, 0 - RecentBars)
        found == ScanFrom(recentPrices, FirstScanned, [resistance |-> <<>>, support |-> <<>>])
        resistanceLevels == SortDescending(found.resistance)
        supportLevels == SortDescending(found.support)
    IN [recentPrices |-> recentPrices,
        found |-> found,
        resistanceLevels |-> resistanceLevels,
        supportLevels |-> supportLevels,
        significantResistance |-> SignificantResistance(resistanceLevels),
        significantSupport |-> SignificantSupport(supportLevels)]

\* volumes.slice(-10).reduce((sum, vol) => sum + vol, 0) / 10
AverageVolume(volumes) == [num |-> SumRange(volumes, 1, Len(volumes)), den |-> 10]

\* x * (n / d)
Times(x, n, d) == [num |-> x.num * n, den |-> x.den * d]

\* Volume Analysis, the same in both files
VolumeRule(rows) ==
    LET volumes == [i \in 1..Len(rows) |-> rows[i].volume]
        avgVolume == AverageVolume(Slice(volumes, 0 - 10))
        latestVolume == Number(volumes[Len(volumes)])
    IN IF Gt(latestVolume, Times(avgVolume, 3, 2)) THEN <<Says("volume", "high")>>
       ELSE IF Lt(latestVolume, Times(avgVolume, 1, 2)) THEN <<Says("volume", "low")>>
       ELSE <<>>

---------------------------------------------------------------------------
(* The handlers of get-technical-analysis *)

\* the volume rule pushing ahead of the others
TrendAnalysisVolumeFirst(ma, cross, rsi, macd, bollinger, volume) ==
    volume \o ma \o cross \o rsi \o macd \o bollinger

\* trendAnalysis: the rules push in the order the code runs them
TrendAnalysis(ma, cross, rsi, macd, bollinger, volume) ==
    ma \o cross \o rsi \o macd \o bollinger \o volume

AnalysisCalls == {"SMA", "EMA", "RSI", "MACD", "BollingerBands"}

\* tools.ts: every latest value is the pop() of a fresh array, undefined when
\* the array is empty; the text is built from latestPrice.toFixed(2) on
ToolsAnalysis(rows) ==
    LET closingPrices == ClosesOf(rows)
        latestPrice == PriceAt(closingPrices, Len(closingPrices) - 1)
        previousPrice == PriceAt(closingPrices, Len(closingPrices) - 2)
        sma20 == Pop(SMA(closingPrices, SMAShort))
        sma50 == Pop(SMA(closingPrices, SMAMid))
        sma200 == Pop(SMA(closingPrices, SMALong))
        rsi14 == Pop(RSI(closingPrices, RSIPeriod))
        macdResult == MACD(closingPrices, FastPeriod, SlowPeriod, SignalPeriod)
        afterPops == [macd |-> Popped(macdResult.macd),
                      signal |-> Popped(macdResult.signal),
                      histogram |-> Popped(macdResult.histogram)]
        bbands == BollingerBands(closingPrices, BBPeriod, StdDev)
        bbandsUpper == Pop(bbands.upper)
        bbandsLower == Pop(bbands.lower)
        levels == SupportResistance(closingPrices)
        trendAnalysis ==
            TrendAnalysis(ToolsMovingAverageRule(latestPrice, sma20, sma50),
                          ToolsCrossRule(sma50, sma200),
                          RSIRule(OrZero(rsi14)),
                          ToolsMACDRule(afterPops),
                          ToolsBollingerRule(latestPrice, bbandsUpper, bbandsLower),
                          VolumeRule(rows))
    IN IF latestPrice = Undefined THEN Thrown(AnalysisCalls)
       ELSE [kind |-> "report", calls |-> AnalysisCalls,
             latest |-> [latestPrice |-> latestPrice,
                         previousPrice |-> previousPrice,
                         sma20 |-> sma20,
                         sma50 |-> sma50,
                         sma200 |-> sma200,
                         ema12 |-> Pop(EMA(closingPrices, EMAFast)),
                         ema26 |-> Pop(EMA(closingPrices, EMASlow)),
                         rsi14 |-> rsi14,
                         macd |-> Pop(macdResult.macd),
                         macdSignal |-> Pop(macdResult.signal),
                         macdHistogram |-> Pop(macdResult.histogram),
                         bbandsUpper |-> bbandsUpper,
                         bbandsMiddle |-> Pop(bbands.middle),
                         bbandsLower |-> bbandsLower],
             levels |-> levels,
             trendAnalysis |-> trendAnalysis]

\* index.ts: the library is called directly and every latest number is pop() || 0;
\* bbands is the pop() of the record array and bbands!.upper is read without a
\* check
IndexAnalysis(rows) ==
    LET closingPrices == ClosesOf(rows)
        latestPrice == PriceAt(closingPrices, Len(closingPrices) - 1)
        previousPrice == PriceAt(closingPrices, Len(closingPrices) - 2)
        sma20 == OrZero(Pop(SMACalculate(closingPrices, SMAShort)))
        sma50 == OrZero(Pop(SMACalculate(closingPrices, SMAMid)))
        sma200 == OrZero(Pop(SMACalculate(closingPrices, SMALong)))
        rsi14 == OrZero(Pop(RSICalculate(closingPrices, RSIPeriod)))
        macdResult == Pop(MACDCalculate(closingPrices, FastPeriod, SlowPeriod, SignalPeriod))
        bbands == Pop(BollingerBandsCalculate(closingPrices, BBPeriod, StdDev))
    IN IF bbands = Undefined \/ latestPrice = Undefined THEN Thrown(AnalysisCalls)
       ELSE [kind |-> "report", calls |-> AnalysisCalls,
             latest |-> [latestPrice |-> latestPrice,
                         previousPrice |-> previousPrice,
                         sma20 |-> sma20,
                         sma50 |-> sma50,
                         sma200 |-> sma200,
                         ema12 |-> OrZero(Pop(EMACalculate(closingPrices, EMAFast))),
                         ema26 |-> OrZero(Pop(EMACalculate(closingPrices, EMASlow))),
                         rsi14 |-> rsi14,
                         macdResult |-> macdResult,
                         bbands |-> bbands],
             levels |-> SupportResistance(closingPrices),
             trendAnalysis |->
                 TrendAnalysis(IndexMovingAverageRule(latestPrice, sma20, sma50),
                               IndexCrossRule(sma50, sma200),
                               RSIRule(rsi14),
                               IndexMACDRule(macdResult),
                               IndexBollingerRule(latestPrice, bbands),
                               VolumeRule(rows))]

---------------------------------------------------------------------------
(* The handlers: what each returns once its provider call has ended *)

NoData == [kind |-> "nodata", calls |-> {}]

\* the code of the try block after the await
HandlerBody(a, response) ==
    CASE a.tool = "get-stock-price" ->
            [kind |-> "report", calls |-> {}, price |-> response.price]
      [] a.tool = "get-news" ->
            IF response.articles = 0 THEN NoData
            ELSE [kind |-> "report", calls |-> {},
                  articles |-> Min(response.articles, NewsShown)]
      [] a.tool = "get-historical-data" ->
            IF IsEmpty(response.rows) THEN NoData
            ELSE [kind |-> "report", calls |-> {}, lines |-> Len(response.rows)]
      [] a.tool = "get-technical-indicators" ->
            IF IsEmpty(response.rows) THEN NoData
            ELSE IF a.impl = "tools"
                 THEN ToolsIndicator(a.indicator, a.period,
                                     ClosesOf(response.rows), DatesOf(response.rows))
                 ELSE IndexIndicator(a.indicator, a.period,
                                     ClosesOf(response.rows), DatesOf(response.rows))
      [] a.tool = "get-technical-analysis" ->
            IF IsEmpty(response.rows) THEN NoData
            ELSE IF a.impl = "tools"
                 THEN ToolsAnalysis(response.rows)
                 ELSE IndexAnalysis(response.rows)

\* a handler without its try/catch
NoCatch(outcome) == outcome

\* try { ... } catch { return the "Could not fetch" / "Failed to ..." text }
TryCatch(outcome) ==
    IF outcome.kind = "throw"
    THEN [kind |-> "failed", calls |-> outcome.calls]
    ELSE outcome

\* the handler from its await on: a rejected provider promise throws at the await
HandlerReturn(a, response) ==
    TryCatch(IF response.kind = "error" THEN Thrown({}) ELSE HandlerBody(a, response))

---------------------------------------------------------------------------
(* One tool invocation at a time: request, provider call, result *)

Init ==
    /\ call = NoCall
    /\ ret = Undefined
    /\ HandlerIdle
    /\ CallerIdle
    /\ HttpIdle

\* a tools/call request arrives; the server validates the arguments against the
\* tool's schema and only then calls the handler, which starts its provider call
Receive ==
    /\ pc = "idle"
    /\ \E r \in Requests :
        /\ req' = r
        /\ IF SchemaAccepts(r)
           THEN /\ pc' = "awaitFetch"
                /\ args' = ParsedArgs(r)
                /\ fetches' = fetches + 1
                /\ result' = result
           ELSE /\ pc' = "done"
                /\ args' = args
                /\ fetches' = fetches
                /\ result' = [kind |-> "rejected"]
    /\ UNCHANGED <<resp, engineVars, callerVars, httpVars>>

ProviderResponses(tool) ==
    CASE tool = "get-stock-price" -> Quotes
      [] tool = "get-news" -> {[kind |-> "articles", articles |-> n] : n \in ArticleCounts}
      [] tool = "get-technical-analysis" ->
            {[kind |-> "rows", rows |-> rows] : rows \in AnalysisRowSeqs}
      [] OTHER -> {[kind |-> "rows", rows |-> rows] : rows \in RowSeqs}

\* the provider call resolves and the handler runs to its return
ProviderReturns ==
    /\ pc = "awaitFetch"
    /\ \E response \in ProviderResponses(args.tool) :
        /\ resp' = response
        /\ result' = HandlerReturn(args, response)
    /\ pc' = "done"
    /\ UNCHANGED <<req, args, fetches, engineVars, callerVars, httpVars>>

\* the provider call rejects (network, quota, unknown symbol, unparsable date)
ProviderFails ==
    /\ pc = "awaitFetch"
    /\ resp' = [kind |-> "error"]
    /\ result' = HandlerReturn(args, [kind |-> "error"])
    /\ pc' = "done"
    /\ UNCHANGED <<req, args, fetches, engineVars, callerVars, httpVars>>

\* the result is sent; everything of the invocation is dropped
Respond ==
    /\ pc = "done"
    /\ pc' = "idle"
    /\ req' = NoRequest
    /\ args' = NoRequest
    /\ fetches' = 0
    /\ resp' = NoResponse
    /\ result' = NoResult
    /\ UNCHANGED <<engineVars, callerVars, httpVars>>

Next ==
    \/ Receive
    \/ ProviderReturns
    \/ ProviderFails
    \/ Respond

Spec == Init /\ [][Next]_vars

---------------------------------------------------------------------------
(* Properties of the handlers *)

\* the warm-up table of the indicator kinds
Warmup(indicator, period) ==
    CASE indicator \in {"sma", "ema", "bollinger"} -> period - 1
      [] indicator = "rsi" -> period
      [] indicator = "macd" -> SlowPeriod + SignalPeriod - 2

\* the handler of get-technical-indicators of one implementation has returned
IndicatorDone(impl) ==
    /\ pc = "done"
    /\ args.tool = "get-technical-indicators"
    /\ args.impl = impl
    /\ resp.kind = "rows"

IndicatorReported(impl) == IndicatorDone(impl) /\ result.kind = "report"

\* C3: in get-technical-indicators of tools.ts the j-th aligned point pairs
\* dates[warmup + j] with the value(s) computed for closes[warmup + j], for
\* every indicator kind and every field of the point.
C3_PointsAligned ==
    IndicatorReported("tools") =>
        LET w == Warmup(args.indicator, args.period)
            dates == DatesOf(resp.rows)
        IN \A j \in 1..Len(result.points) :
              /\ result.points[j].date = dates[w + j]
              /\ \A f \in DOMAIN result.points[j].v :
                    /\ result.points[j].v[f] # Undefined
                    /\ result.points[j].v[f].step = w + j

IsAscending(seq) == \A i \in 1..Len(seq), j \in 1..Len(seq) : i < j => seq[i] < seq[j]

\* C4: in get-technical-indicators of tools.ts, for every bar count n >= warmup,
\* every series the engine returns has len(dates) - warmup elements, there are
\* as many aligned points, and the points are in ascending date order.
C4_SeriesLengthMatches ==
    (IndicatorReported("tools")
        /\ Len(resp.rows) >= Warmup(args.indicator, args.period)) =>
        LET w == Warmup(args.indicator, args.period)
        IN /\ \A f \in DOMAIN result.series :
                 /\ Len(resp.rows) - w = Len(result.series[f])
                 /\ Len(result.points) = Len(result.series[f])
           /\ IsAscending([j \in 1..Len(result.points) |-> result.points[j].date])

\* an sma request whose provider call returned rows has been handled
SmaDone ==
    /\ pc = "done"
    /\ args.tool = "get-technical-indicators"
    /\ args.indicator = "sma"
    /\ resp.kind = "rows"

\* C5: for 1 <= period <= len(closes), SMA(closes, period) has
\* len(closes) - period + 1 values, value k is the mean of
\* closes[k .. k+period-1], and the first aligned date of the sma report is the
\* period-th input date.
C5_SMAWindowMeans ==
    (SmaDone /\ args.period >= 1 /\ args.period <= Len(resp.rows)) =>
        LET closes == ClosesOf(resp.rows)
        IN /\ result.kind = "report"
           /\ Len(result.series.sma) = Len(closes) - args.period + 1
           /\ \A k \in 1..Len(result.series.sma) :
                 /\ result.series.sma[k].num = SumRange(closes, k, k + args.period - 1)
                 /\ result.series.sma[k].den = args.period
           /\ result.points[1].date = DatesOf(resp.rows)[args.period]

\* an sma report over three bars with a window of two: the window has moved
C5_Witness ==
    /\ SmaDone
    /\ args.period = 2
    /\ Len(resp.rows) = 3
    /\ result.kind = "report"
    /\ Len(result.points) = 2

\* the sma request asks for a window longer than the bars fetched
SmaPeriodTooLong == SmaDone /\ Len(resp.rows) >= 1 /\ args.period > Len(resp.rows)

IndicatorRequestValid(r) ==
    /\ ZEnum(r.indicator, Indicators)
    /\ (r.period.t = "undefined"
           \/ (r.period.t = "number" /\ r.period.n >= MinPeriod /\ r.period.n <= MaxPeriod))
    /\ IsCalendarDate(r.startDate)
    /\ IsCalendarDate(r.endDate)

\* C7: a get-technical-indicators request with an indicator outside the five
\* kinds, a period outside [1,200] or a start/end date that is no calendar date
\* is rejected before any provider fetch; an omitted period is taken as 14.
C7_InvalidRejectedBeforeFetch ==
    (req.tool = "get-technical-indicators") =>
        /\ ~IndicatorRequestValid(req) => (result.kind = "rejected" /\ fetches = 0)
        /\ (IndicatorRequestValid(req) /\ req.period.t = "undefined") =>
              args.period = DefaultPeriod

\* C8: when the provider returns zero bars, get-technical-indicators,
\* get-technical-analysis and get-historical-data return the 'no data' result,
\* with no indicator function called and not through the error path.
C8_EmptySeriesNoData ==
    (pc = "done" /\ args.tool \in HistoricalTools
        /\ resp.kind = "rows" /\ resp.rows = <<>>) =>
        (result.kind = "nodata" /\ result.calls = {})

C8_Witness ==
    /\ pc = "done"
    /\ args.tool = "get-technical-analysis"
    /\ resp.kind = "rows"
    /\ resp.rows = <<>>
    /\ result.kind = "nodata"

\* C9: a failed provider call (quote, historical, news) ends in the handler's
\* failure text, and no exception thrown in a handler leaves the handler.
C9_FailuresCaught ==
    (pc = "done" /\ result.kind # "rejected") =>
        /\ result.kind \in {"report", "nodata", "failed"}
        /\ resp.kind = "error" => result.kind = "failed"

C9_Witness ==
    /\ pc = "done"
    /\ args.tool = "get-stock-price"
    /\ resp.kind = "error"
    /\ result.kind = "failed"

\* C10: for every non-empty bar sequence, however short, get-technical-indicators
\* and get-technical-analysis return a (possibly empty or partial) report and
\* never the 'Failed to calculate / generate' text, in tools.ts and in index.ts.
C10_ShortInputNeverFails ==
    (pc = "done"
        /\ args.tool \in {"get-technical-indicators", "get-technical-analysis"}
        /\ resp.kind = "rows" /\ Len(resp.rows) >= 1) =>
        result.kind = "report"

---------------------------------------------------------------------------
(* Properties of get-technical-analysis *)

\* the handler of get-technical-analysis of one implementation has returned its
\* report
AnalysisReported(impl) ==
    /\ pc = "done"
    /\ args.tool = "get-technical-analysis"
    /\ args.impl = impl
    /\ resp.kind = "rows"
    /\ result.kind = "report"

AnalysisReportedAny == \E impl \in Impls : AnalysisReported(impl)

Elements(seq) == {seq[k] : k \in 1..Len(seq)}

IsDescending(seq) == \A k \in 1..Len(seq) - 1 : seq[k] > seq[k + 1]

\* C11: the reported resistance levels are the two largest recorded resistance
\* levels (all of them if fewer than two) in descending order, the reported
\* support levels are the two smallest recorded support levels (all if fewer
\* than two), also in descending order; each list has at most 2 entries.
C11_SignificantLevels ==
    AnalysisReportedAny =>
        LET found == result.levels.found
            resistance == result.levels.significantResistance
            support == result.levels.significantSupport
        IN /\ Len(resistance) = Min(2, Len(found.resistance))
           /\ Len(support) = Min(2, Len(found.support))
           /\ IsDescending(resistance)
           /\ IsDescending(support)
           /\ Elements(resistance) \subseteq Elements(found.resistance)
           /\ Elements(support) \subseteq Elements(found.support)
           /\ \A x \in Elements(found.resistance) \ Elements(resistance) :
                  \A y \in Elements(resistance) : x < y
           /\ \A x \in Elements(found.support) \ Elements(support) :
                  \A y \in Elements(support) : x > y

\* three or more levels of each kind were recorded, in an order that is not the
\* sorted one
C11_Witness ==
    /\ AnalysisReported("tools")
    /\ Len(result.levels.found.resistance) >= 3
    /\ Len(result.levels.found.support) >= 3
    /\ ~IsDescending(result.levels.found.resistance)
    /\ ~IsDescending(result.levels.found.support)

Distance(x, y) == IF x > y THEN x - y ELSE y - x

\* no two levels of the list differ by less than 1% of either of the two
DedupedWithinOnePercent(levels) ==
    \A j \in 1..Len(levels) : \A k \in 1..Len(levels) :
        j # k => /\ 100 * Distance(levels[j], levels[k]) >= levels[j]
                 /\ 100 * Distance(levels[j], levels[k]) >= levels[k]

\* C12: after the support/resistance scan no two recorded levels of the same
\* kind differ by less than 1% of either of the two levels, whatever order the
\* candidates were encountered in.
C12_LevelsDeduplicated ==
    AnalysisReportedAny =>
        /\ DedupedWithinOnePercent(result.levels.found.resistance)
        /\ DedupedWithinOnePercent(result.levels.found.support)

\* index i (counted from 0) of w is a strict local maximum / minimum
IsPeak(w, i) == w[i + 1] > w[i] /\ w[i + 1] > w[i + 2]
IsTrough(w, i) == w[i + 1] < w[i] /\ w[i + 1] < w[i + 2]

\* the last 30 elements of closes, all of them when there are fewer
LastThirty(closes) ==
    LET n == Min(30, Len(closes))
    IN [k \in 1..n |-> closes[Len(closes) - n + k]]

\* C13: the scan considers exactly the indices i with 10 <= i <= len(w) - 2 of
\* the window w of the last 30 closes: w[i] is a resistance candidate iff it
\* is strictly greater than both neighbours, a support candidate iff strictly
\* less than both; every recorded level is such a candidate and every such
\* candidate is recorded unless a recorded level of its kind stands for it.
C13_ScanCandidates ==
    AnalysisReportedAny =>
        LET w == LastThirty(ClosesOf(resp.rows))
            scanned == 10..(Len(w) - 2)
            found == result.levels.found
        IN /\ result.levels.recentPrices = w
           /\ \A x \in Elements(found.resistance) :
                  \E i \in scanned : IsPeak(w, i) /\ w[i + 1] = x
           /\ \A x \in Elements(found.support) :
                  \E i \in scanned : IsTrough(w, i) /\ w[i + 1] = x
           /\ \A i \in scanned :
                  /\ IsPeak(w, i) =>
                        \E x \in Elements(found.resistance) :
                            x = w[i + 1] \/ 100 * Distance(x, w[i + 1]) < w[i + 1]
                  /\ IsTrough(w, i) =>
                        \E x \in Elements(found.support) :
                            x = w[i + 1] \/ 100 * Distance(x, w[i + 1]) < w[i + 1]
                  /\ ~(IsPeak(w, i) /\ IsTrough(w, i))

\* a peak stands at index 9, just before the scan starts, and is not recorded,
\* while a trough inside the scanned range is
C13_Witness ==
    /\ AnalysisReported("tools")
    /\ Len(resp.rows) >= 12
    /\ IsPeak(LastThirty(ClosesOf(resp.rows)), 9)
    /\ result.levels.found.resistance = <<>>
    /\ result.levels.found.support # <<>>

\* the observations of one rule in a list
Of(trendAnalysis, rule) == SelectSeq(trendAnalysis, LAMBDA o : o.rule = rule)

Emits(trendAnalysis, rule, what) ==
    \E k \in 1..Len(trendAnalysis) :
        trendAnalysis[k].rule = rule /\ trendAnalysis[k].says = what

\* the place of each rule in the fixed order
RuleOrder == <<"ma", "cross", "rsi", "macd", "bollinger", "volume">>
Rank(rule) == CHOOSE k \in 1..Len(RuleOrder) : RuleOrder[k] = rule

LatestPrice == Number(resp.rows[Len(resp.rows)].close)
LatestSMA(period) == OrZero(Pop(SMACalculate(ClosesOf(resp.rows), period)))
LatestRSI == OrZero(Pop(RSICalculate(ClosesOf(resp.rows), 14)))
LatestMACDRecord == Pop(MACDCalculate(ClosesOf(resp.rows), 12, 26, 9))
LatestMACD ==
    IF IsDefined(LatestMACDRecord) THEN OrZero(LatestMACDRecord.MACD) ELSE Number(0)
LatestSignal ==
    IF IsDefined(LatestMACDRecord) THEN OrZero(LatestMACDRecord.signal) ELSE Number(0)
LatestBands == Pop(BollingerBandsCalculate(ClosesOf(resp.rows), 20, 2))

\* C15: whenever the latest value of an indicator is missing, the rule that uses
\* it is still evaluated with 0 substituted for the missing value; no rule is
\* skipped because an input is undefined.  (Stated for the moving-average, the
\* cross, the RSI and the Bollinger rule.)
C15_MissingInputsAreZero ==
    AnalysisReportedAny =>
        LET n == Len(resp.rows)
            obs == result.trendAnalysis
        IN /\ n < 50 =>
                /\ Emits(obs, "ma", "positive") <=>
                      (Gt(LatestPrice, LatestSMA(20)) /\ Gt(LatestSMA(20), LatestSMA(50)))
                /\ Emits(obs, "ma", "negative") <=>
                      (Lt(LatestPrice, LatestSMA(20)) /\ Lt(LatestSMA(20), LatestSMA(50)))
           /\ n < 200 =>
                /\ Emits(obs, "cross", "golden") <=> Gt(LatestSMA(50), LatestSMA(200))
                /\ Emits(obs, "cross", "death") <=> Lt(LatestSMA(50), LatestSMA(200))
           /\ n < 15 =>
                /\ Emits(obs, "rsi", "oversold")
                /\ Len(Of(obs, "rsi")) = 1
           /\ n < 20 =>
                Emits(obs, "bollinger", "above") <=> Gt(LatestPrice, Number(0))

\* C16: the MACD rule emits exactly one observation on every analysis: the
\* bullish one iff the latest MACD line value is greater than the latest signal
\* line value, otherwise the bearish one.
C16_MACDRule ==
    AnalysisReportedAny =>
        /\ Len(Of(result.trendAnalysis, "macd")) = 1
        /\ Emits(result.trendAnalysis, "macd", "bullish") <=> Gt(LatestMACD, LatestSignal)
        /\ Emits(result.trendAnalysis, "macd", "bearish") <=> ~Gt(LatestMACD, LatestSignal)

\* C17: the Bollinger rule emits at most one observation: 'above' if the latest
\* price > upper; else 'below' if the latest price < lower; else 'contracting'
\* iff upper - lower, in price units and not divided by the middle band, is
\* below 10.  (Stated for the analyses that have their bands.)
C17_BollingerRule ==
    (AnalysisReportedAny /\ IsDefined(LatestBands)) =>
        LET obs == result.trendAnalysis
            above == GtBand(LatestPrice, LatestBands.upper)
            below == ~above /\ LtBand(LatestPrice, LatestBands.lower)
            narrow == WidthBelow(BandDiff(LatestBands.upper, LatestBands.lower), 10)
        IN /\ Len(Of(obs, "bollinger")) <= 1
           /\ Emits(obs, "bollinger", "above") <=> above
           /\ Emits(obs, "bollinger", "below") <=> below
           /\ Emits(obs, "bollinger", "contracting") <=> (~above /\ ~below /\ narrow)

\* the average with every bar counted
MeanOfAll(volumes) == [num |-> SumRange(volumes, 1, Len(volumes)), den |-> Len(volumes)]

\* C18: the volume rule compares the latest bar's volume with the arithmetic
\* mean of the volumes of the trailing 10 bars (of all bars when fewer than 10
\* exist): 'high interest' iff latest > 1.5 x mean, 'low interest' iff
\* latest < 0.5 x mean, and no observation otherwise.
C18_VolumeRule ==
    AnalysisReportedAny =>
        LET obs == result.trendAnalysis
            volumes == [k \in 1..Len(resp.rows) |-> resp.rows[k].volume]
            mean == MeanOfAll(Slice(volumes, 0 - Min(10, Len(volumes))))
            latest == Number(volumes[Len(volumes)])
        IN /\ Emits(obs, "volume", "high") <=> Gt(latest, Times(mean, 3, 2))
           /\ Emits(obs, "volume", "low") <=> Lt(latest, Times(mean, 1, 2))
           /\ Len(Of(obs, "volume")) <= 1

\* both averages of the moving-average rule exist
HasBothAverages == Len(resp.rows) >= 50

C20_RSIRule ==
    AnalysisReportedAny =>
        LET obs == Of(result.trendAnalysis, "rsi")
        IN /\ Len(obs) = 1
           /\ obs[1].says = "overbought" <=> LatestRSI.num > 70 * LatestRSI.den
           /\ obs[1].says = "oversold" <=> LatestRSI.num < 30 * LatestRSI.den
           /\ obs[1].says \in {"overbought", "oversold", "neutral"}
           /\ obs[1].says = "neutral" =>
                  obs[1].value.num * LatestRSI.den = LatestRSI.num * obs[1].value.den

\* the latest RSI is exactly 70 and the observation is the neutral one
C20_Witness ==
    /\ AnalysisReported("tools")
    /\ LatestRSI.num = 70 * LatestRSI.den
    /\ Emits(result.trendAnalysis, "rsi", "neutral")


\* C28: in get-technical-analysis of tools.ts with positive closes the cross
\* rule depends on the bar count alone while SMA200 is unavailable: with fewer
\* than 50 bars it emits neither cross observation, with 50 to 199 bars it
\* always emits the Golden Cross.
C28_CrossByBarCount ==
    (AnalysisReported("tools") /\ \A k \in 1..Len(resp.rows) : resp.rows[k].close > 0) =>
        LET n == Len(resp.rows)
            cross == Of(result.trendAnalysis, "cross")
        IN /\ n < SMAMid => cross = <<>>
           /\ (n >= SMAMid /\ n < SMALong) => cross = <<Says("cross", "golden")>>

\* a falling series of 50 to 199 bars, no SMA200, and the Golden Cross reported
C28_Witness ==
    /\ AnalysisReported("tools")
    /\ Len(resp.rows) >= SMAMid
    /\ Len(resp.rows) < SMALong
    /\ resp.rows[1].close > resp.rows[Len(resp.rows)].close
    /\ result.latest.sma200 = Undefined
    /\ Emits(result.trendAnalysis, "cross", "golden")

\* C29: the report of get-technical-indicators of tools.ts lists exactly
\* min(10, number of aligned points) points, the most recent ones in ascending
\* date order, and its footer counts the fetched bars, not the aligned points.
C29_LastTenAndFooter ==
    IndicatorReported("tools") =>
        LET points == result.points
            shown == result.shown
            skipped == Len(points) - Len(shown)
        IN /\ Len(shown) = Min(ShownPoints, Len(points))
           /\ \A k \in 1..Len(shown) : shown[k] = points[skipped + k]
           /\ IsAscending([k \in 1..Len(shown) |-> shown[k].date])
           /\ result.days = Len(resp.rows)

\* more than ten aligned points, fewer points than bars
C29_Witness ==
    /\ IndicatorReported("tools")
    /\ Len(result.points) > ShownPoints
    /\ Len(result.shown) = ShownPoints
    /\ Len(result.points) < Len(resp.rows)
    /\ result.days = Len(resp.rows)

---------------------------------------------------------------------------
(* A computation repeated on the same arrays: the arrays of the caller are  *)
(* objects, a pop() shortens the array it is called on                      *)

MaxRuns == 2        \* how often the computation is repeated on the same arrays

\* const name = <call>: the array the call returned is bound to a local name
Bind(h, name, arr) ==
    [r \in DOMAIN h \cup {name} |-> IF r = name THEN arr ELSE h[r]]

\* name.pop(): the element taken and the array one shorter
PopOf(state, name) ==
    [heap |-> [state.heap EXCEPT ![name] = Popped(@)],
     out  |-> Bind(state.out, name, Pop(state.heap[name]))]

\* the latest price taken with closingPrices.pop()
TakeLatestPrice(h) ==
    [heap |-> [h EXCEPT !.closingPrices = Popped(@)],
     out  |-> [latestPrice |-> PriceAt(h.closingPrices, Len(h.closingPrices) - 1)]]

\* const latestPrice = closingPrices[closingPrices.length - 1]
ReadLatestPrice(h) ==
    [heap |-> h,
     out  |-> [latestPrice |-> PriceAt(h.closingPrices, Len(h.closingPrices) - 1)]]

\* the statements that pop, in their order, and the array each one pops
PopStatements ==
    <<"sma20", "sma50", "sma200", "ema12", "ema26", "rsi14",
      "macd", "macdSignal", "macdHistogram",
      "bbandsUpper", "bbandsMiddle", "bbandsLower">>

PoppedArray(name, closingPrices) ==
    CASE name = "sma20" -> SMA(closingPrices, SMAShort)
      [] name = "sma50" -> SMA(closingPrices, SMAMid)
      [] name = "sma200" -> SMA(closingPrices, SMALong)
      [] name = "ema12" -> EMA(closingPrices, EMAFast)
      [] name = "ema26" -> EMA(closingPrices, EMASlow)
      [] name = "rsi14" -> RSI(closingPrices, RSIPeriod)
      [] name = "macd" -> MACD(closingPrices, FastPeriod, SlowPeriod, SignalPeriod).macd
      [] name = "macdSignal" ->
            MACD(closingPrices, FastPeriod, SlowPeriod, SignalPeriod).signal
      [] name = "macdHistogram" ->
            MACD(closingPrices, FastPeriod, SlowPeriod, SignalPeriod).histogram
      [] name = "bbandsUpper" -> BollingerBands(closingPrices, BBPeriod, StdDev).upper
      [] name = "bbandsMiddle" -> BollingerBands(closingPrices, BBPeriod, StdDev).middle
      [] name = "bbandsLower" -> BollingerBands(closingPrices, BBPeriod, StdDev).lower

RECURSIVE RunPops(_, _)
RunPops(state, k) ==
    IF k > Len(PopStatements) THEN state
    ELSE LET name == PopStatements[k]
             bound == [state EXCEPT
                          !.heap = Bind(@, name, PoppedArray(name, state.heap.closingPrices))]
         IN RunPops(PopOf(bound, name), k + 1)

\* tools.ts, the latest values of get-technical-analysis: what they are and what
\* the arrays of the caller hold afterwards (the locals are dropped on return)
ToolsLatestValues(h) ==
    LET end == RunPops(ReadLatestPrice(h), 1)
    IN [heap |-> [closingPrices |-> end.heap.closingPrices, dates |-> end.heap.dates],
        out  |-> end.out]

\* what is repeated: a wrapper of technicalIndicator.ts, the switch of
\* get-technical-indicators, or the latest values of get-technical-analysis
CallerOps ==
    {[fn |-> f, period |-> p] : f \in {"SMA", "EMA", "RSI", "BollingerBands"}, p \in 1..MaxParam}
    \cup {[fn |-> "MACD"], [fn |-> "analysis"]}
    \cup {[fn |-> "indicator", indicator |-> k, period |-> p] :
              k \in Indicators, p \in 1..MaxParam}

\* one run on the arrays h: what it returns and what the arrays hold afterwards;
\* the library and the slices only read their input
Computation(o, h) ==
    CASE o.fn = "analysis" -> ToolsLatestValues(h)
      [] o.fn = "indicator" ->
            [heap |-> h,
             out |-> ToolsIndicator(o.indicator, o.period, h.closingPrices, h.dates)]
      [] o.fn = "SMA" -> [heap |-> h, out |-> SMA(h.closingPrices, o.period)]
      [] o.fn = "EMA" -> [heap |-> h, out |-> EMA(h.closingPrices, o.period)]
      [] o.fn = "RSI" -> [heap |-> h, out |-> RSI(h.closingPrices, o.period)]
      [] o.fn = "MACD" ->
            [heap |-> h,
             out |-> MACD(h.closingPrices, FastPeriod, SlowPeriod, SignalPeriod)]
      [] o.fn = "BollingerBands" ->
            [heap |-> h, out |-> BollingerBands(h.closingPrices, o.period, StdDev)]

CallerInputs ==
    {[closingPrices |-> c, dates |-> [i \in 1..Len(c) |-> DayOf(i)]] :
        c \in (ShortSeries \cup LongSeries) \ {<<>>}}

CallerInit ==
    /\ call = NoCall
    /\ ret = Undefined
    /\ HandlerIdle
    /\ heap \in CallerInputs
    /\ given = heap
    /\ op \in CallerOps
    /\ outs = <<>>
    /\ HttpIdle

\* the computation runs once more on the arrays as the last run left them
Compute ==
    /\ Len(outs) < MaxRuns
    /\ LET run == Computation(op, heap)
       IN /\ heap' = run.heap
          /\ outs' = Append(outs, run.out)
    /\ UNCHANGED <<engineVars, handlerVars, httpVars, given, op>>

CallerNext == Compute

SpecCaller == CallerInit /\ [][CallerNext]_vars

---------------------------------------------------------------------------
(* POST /mcp over HTTP.  Two handlers exist: the one of build/ makes a      *)
(* server and a transport for every POST, the one of src/ keeps transports  *)
(* by session id.  The handlers of concurrent POSTs interleave at their     *)
(* awaits; within a transport the tool handlers interleave at their fetches *)

MaxPosts == 2       \* POSTs that arrive

\* randomUUID(): the id a transport generates is the id of no other transport
SessionId(t) == [uuid |-> t]

\* a session id no transport has generated
UnknownSession == [uuid |-> 0]

\* a header value that names a property every object inherits
InheritedKey == [inherited |-> "constructor"]

\* JSON-RPC bodies: one message or an array of messages
Single(m) == [batch |-> FALSE, msgs |-> <<m>>]
BatchOf(ms) == [batch |-> TRUE, msgs |-> ms]

CallArgs ==
    {ParsedArgs([impl |-> "tools", tool |-> "get-stock-price", symbol |-> Str("AAPL")]),
     ParsedArgs([impl |-> "tools", tool |-> "get-news", stockName |-> Str("AAPL"),
                 startDate |-> Str("2024-01-02"), endDate |-> Absent])}

Bodies ==
    {Single([method |-> "initialize"]),
     BatchOf(<<[method |-> "initialize"], [method |-> "notifications/initialized"]>>)}
    \cup {Single([method |-> "tools/call", args |-> a]) : a \in CallArgs}

\* InitializeRequestSchema.safeParse(data).success
IsInitial(m) == m.method = "initialize"

\* isInitializeRequest: any message of an array, or the body itself
IsInitializeRequest(body) ==
    IF body.batch THEN \E k \in 1..Len(body.msgs) : IsInitial(body.msgs[k])
    ELSE IsInitial(body.msgs[1])

IsToolCall(body) == ~body.batch /\ body.msgs[1].method = "tools/call"

\* a lookup that answers with some stored transport whatever the id
LookupAny(map, sessionId) ==
    IF DOMAIN map # {} THEN map[CHOOSE k \in DOMAIN map : TRUE]
    ELSE Undefined

\* transports[sessionId] on a plain object: an own key, else a property
\* inherited from Object.prototype, else undefined
Lookup(map, sessionId) ==
    IF sessionId \in DOMAIN map THEN map[sessionId]
    ELSE IF sessionId = InheritedKey THEN [inherited |-> TRUE]
    ELSE Undefined

IsTransport(found) == "transport" \in DOMAIN found

\* a POST as it arrives: getServer() has made its server
Arrived(sid, body, server) ==
    [sid |-> sid, body |-> body, server |-> server, route |-> "none", transport |-> 0,
     pc |-> "arrived", status |-> 0, code |-> 0, responses |-> 0,
     threw |-> FALSE, sentAtThrow |-> FALSE, stored |-> FALSE,
     tpc |-> "none", args |-> NoRequest, resp |-> NoResponse, result |-> NoResult]

\* new StreamableHTTPServerTransport({ sessionIdGenerator })
NewTransport(generator, server) ==
    [generator |-> generator, server |-> server, sessionId |-> Undefined,
     initialized |-> FALSE, handled |-> {}]

\* res.status(status).json({ error: { code } }), or the transport writing its
\* response head
Send(r, status, code) ==
    [r EXCEPT !.status = status, !.code = code, !.responses = @ + 1]

\* a catch block that answers 500 whatever was sent
CatchUnguarded(r) ==
    Send([r EXCEPT !.threw = TRUE, !.sentAtThrow = (r.responses > 0), !.pc = "done"],
         500, -32603)

\* catch (err) { if (!res.headersSent) res.status(500).json(...) }
Catch(r) ==
    LET caught == [r EXCEPT !.threw = TRUE, !.sentAtThrow = (r.responses > 0),
                            !.pc = "done"]
    IN IF r.responses = 0 THEN Send(caught, 500, -32603) ELSE caught

\* src: the branch the handler takes, from the header and the body
SrcRoute(sessionId, body) ==
    IF sessionId # Undefined /\ Lookup(transports, sessionId) # Undefined THEN "reuse"
    ELSE IF sessionId = Undefined /\ IsInitializeRequest(body) THEN "init"
    ELSE "reject"

\* the result of a tool handler taken from whichever invocation fetched first
ToolResultShared(i, ps) ==
    LET fetched == {j \in 1..Len(ps) : ps[j].resp # NoResponse}
        j == CHOOSE k \in fetched : \A m \in fetched : k <= m
    IN HandlerReturn(ps[i].args, ps[j].resp)

\* registerTools: every handler works on its own arguments and on the
\* response of its own fetch, all of them locals of the invocation
ToolResult(i, ps) == HandlerReturn(ps[i].args, ps[i].resp)

\* the transport is stored under the session id the request carried
StoredKeyFromHeader(r) == IF r.sid = Undefined THEN UnknownSession ELSE r.sid

\* const sessionId = transport.sessionId: the key the transport is stored under
StoredKey(r) == made[r.transport].sessionId

HttpInit ==
    /\ call = NoCall
    /\ ret = Undefined
    /\ HandlerIdle
    /\ CallerIdle
    /\ deployed \in {"build", "src"}
    /\ transports = <<>>
    /\ made = <<>>
    /\ posts = <<>>
    /\ visible = {}

\* a POST arrives and its handler runs to its first await, or to its return
Arrive ==
    /\ deployed # "none"
    /\ Len(posts) < MaxPosts
    /\ \E sid \in {Undefined, UnknownSession, InheritedKey} \cup visible, body \in Bodies :
        LET i == Len(posts) + 1
            r == Arrived(sid, body, i)
            t == Len(made) + 1
            route == IF deployed = "build" THEN "fresh" ELSE SrcRoute(sid, body)
            found == Lookup(transports, sid)
        IN CASE route \in {"fresh", "init"} ->
                  \* a new transport; await server.connect(transport)
                  /\ made' = Append(made, NewTransport(deployed = "src", i))
                  /\ posts' = Append(posts,
                                     [r EXCEPT !.route = route, !.transport = t,
                                               !.pc = "connect"])
             [] route = "reuse" /\ IsTransport(found) ->
                  \* await transport.handleRequest(req, res, req.body)
                  /\ made' = [made EXCEPT ![found.transport].handled = @ \cup {i}]
                  /\ posts' = Append(posts,
                                     [r EXCEPT !.route = route,
                                               !.transport = found.transport,
                                               !.pc = "handle"])
             [] route = "reuse" /\ ~IsTransport(found) ->
                  \* what was found has no handleRequest: the call throws
                  /\ made' = made
                  /\ posts' = Append(posts, Catch([r EXCEPT !.route = route]))
             [] route = "reject" ->
                  /\ made' = made
                  /\ posts' = Append(posts,
                                     Send([r EXCEPT !.route = route, !.pc = "done"],
                                          400, -32000))
    /\ UNCHANGED <<engineVars, handlerVars, callerVars, deployed, transports, visible>>

\* server.connect resolves and the handler calls transport.handleRequest
Connected(i) ==
    /\ posts[i].pc = "connect"
    /\ posts' = [posts EXCEPT ![i].pc = "handle"]
    /\ made' = [made EXCEPT ![posts[i].transport].handled = @ \cup {i}]
    /\ UNCHANGED <<engineVars, handlerVars, callerVars, deployed, transports, visible>>

\* server.connect rejects
ConnectThrows(i) ==
    /\ posts[i].pc = "connect"
    /\ posts' = [posts EXCEPT ![i] = Catch(@)]
    /\ UNCHANGED <<engineVars, handlerVars, callerVars, deployed, transports, made,
                   visible>>

\* the transport answers 400 itself: an initialize message inside a longer
\* batch, or on a transport that is initialized already
TransportRefuses(r, tr) ==
    IsInitializeRequest(r.body) /\ (Len(r.body.msgs) > 1 \/ tr.initialized)

\* transport.handleRequest writes the response head; an initialize request
\* makes the transport generate its session id, which the head carries; a
\* tools/call message is passed to the tool handler, which starts its fetch
HandleAnswers(i) ==
    LET r == posts[i]
        t == r.transport
        tr == made[t]
        initializing == IsInitializeRequest(r.body)
        sessionId == IF initializing /\ tr.generator THEN SessionId(t) ELSE tr.sessionId
        written == [r EXCEPT !.pc = "written"]
    IN /\ r.pc = "handle"
       /\ IF TransportRefuses(r, tr)
          THEN /\ posts' = [posts EXCEPT ![i] = Send(written, 400, -32600)]
               /\ UNCHANGED <<made, visible>>
          ELSE /\ posts' = [posts EXCEPT ![i] =
                               IF IsToolCall(r.body)
                               THEN Send([written EXCEPT !.tpc = "awaitFetch",
                                                         !.args = r.body.msgs[1].args],
                                         200, 0)
                               ELSE Send(written, 200, 0)]
               /\ made' = [made EXCEPT ![t].initialized = @ \/ initializing,
                                       ![t].sessionId = sessionId]
               /\ visible' = IF sessionId # Undefined THEN visible \cup {sessionId}
                             ELSE visible
       /\ UNCHANGED <<engineVars, handlerVars, callerVars, deployed, transports>>

\* transport.handleRequest rejects, before or after the response head
HandleThrows(i) ==
    /\ posts[i].pc \in {"handle", "written"}
    /\ posts' = [posts EXCEPT ![i] = Catch(@)]
    /\ UNCHANGED <<engineVars, handlerVars, callerVars, deployed, transports, made,
                   visible>>

\* transport.handleRequest resolves and the handler runs to its return: after
\* an initialize request the transport is stored under its session id
HandleResolves(i) ==
    LET r == posts[i]
        stores == r.route = "init" /\ made[r.transport].sessionId # Undefined
    IN /\ r.pc = "written"
       /\ posts' = [posts EXCEPT ![i].pc = "done", ![i].stored = stores]
       /\ transports' = IF stores
                        THEN Bind(transports, StoredKey(r), [transport |-> r.transport])
                        ELSE transports
       /\ UNCHANGED <<engineVars, handlerVars, callerVars, deployed, made, visible>>

\* the fetch of a tool handler settles and the handler runs to its return
ToolReturns(i) ==
    /\ posts[i].tpc = "awaitFetch"
    /\ \E response \in ProviderResponses(posts[i].args.tool) \cup {[kind |-> "error"]} :
          LET fetched == [posts EXCEPT ![i].resp = response, ![i].tpc = "done"]
          IN posts' = [fetched EXCEPT ![i].result = ToolResult(i, fetched)]
    /\ UNCHANGED <<engineVars, handlerVars, callerVars, deployed, transports, made,
                   visible>>

HttpNext ==
    \/ Arrive
    \/ \E i \in 1..Len(posts) :
          \/ Connected(i)
          \/ ConnectThrows(i)
          \/ HandleAnswers(i)
          \/ HandleThrows(i)
          \/ HandleResolves(i)
          \/ ToolReturns(i)

SpecHttp == HttpInit /\ [][HttpNext]_vars

---------------------------------------------------------------------------
(* Properties of POST /mcp *)

PostIds == 1..Len(posts)
TransportIds == 1..Len(made)

\* the step in which the fetch of invocation i settles
Returns(i) == posts[i].tpc = "awaitFetch" /\ posts'[i].tpc = "done"

Returned(i) == posts[i].pc = "done" /\ ~posts[i].threw

\* C24: the session-aware handler routes every request in exactly one of three
\* ways: (1) its session id is a key of the transports map: the stored
\* transport handles it and no transport is made; (2) it has no session id and
\* its body is or contains an initialize request: a transport is made,
\* connected to the server of the request, handles the request and, the
\* handler having returned, is stored under the session id it generated; (3)
\* otherwise: it is answered 400 and nothing is stored.
C24_ThreeRoutes ==
    deployed = "src" =>
        \A i \in PostIds :
            LET r == posts[i]
                t == r.transport
            IN CASE r.route = "reuse" ->
                      /\ r.sid \in DOMAIN transports
                      /\ transports[r.sid] = [transport |-> t]
                      /\ made[t].server # i
                      /\ i \in made[t].handled
                      /\ ~r.stored
                 [] r.route = "init" ->
                      /\ r.sid = Undefined
                      /\ IsInitializeRequest(r.body)
                      /\ made[t].server = i
                      /\ r.pc \notin {"connect", "done"} => i \in made[t].handled
                      /\ (Returned(i) /\ made[t].sessionId # Undefined) =>
                             /\ i \in made[t].handled
                             /\ r.stored
                             /\ made[t].sessionId \in DOMAIN transports
                             /\ transports[made[t].sessionId] = [transport |-> t]
                 [] r.route = "reject" ->
                      /\ ~(r.sid = Undefined /\ IsInitializeRequest(r.body))
                      /\ r.status = 400
                      /\ r.pc = "done"
                      /\ t = 0
                      /\ ~r.stored
                 [] OTHER -> FALSE

\* the session ids that transports have generated
Generated == {made[t].sessionId : t \in TransportIds} \ {Undefined}

\* C25: under every interleaving of the handlers, a POST that carries a session
\* id some response has carried to a client is routed to the transport of
\* that session and is not answered 400.
C25_VisibleSessionRouted ==
    deployed = "src" =>
        \A i \in PostIds :
            posts[i].sid \in Generated =>
                /\ posts[i].route = "reuse"
                /\ made[posts[i].transport].sessionId = posts[i].sid
                /\ ~(posts[i].status = 400 /\ posts[i].route = "reject")

\* C26: every key of the transports map maps to a transport whose session id
\* is that key, and whatever a handler has stored is still there under its
\* key: no entry is overwritten by another transport and none is removed.
C26_MapKeyedBySessionAndGrows ==
    /\ \A k \in DOMAIN transports :
          /\ IsTransport(transports[k])
          /\ transports[k].transport \in TransportIds
          /\ made[transports[k].transport].sessionId = k
    /\ \A i \in PostIds :
          posts[i].stored =>
              LET t == posts[i].transport
              IN /\ made[t].sessionId \in DOMAIN transports
                 /\ transports[made[t].sessionId] = [transport |-> t]
    /\ Cardinality(DOMAIN transports) = Cardinality({i \in PostIds : posts[i].stored})

\* two sessions are stored, each under its own id, and every handler is done
C26_Witness ==
    /\ Cardinality(DOMAIN transports) = 2
    /\ \A i \in PostIds : posts[i].pc = "done" /\ posts[i].stored

\* C27: every POST gets exactly one HTTP response: never two, and one once its
\* handler is done; when server.connect or transport.handleRequest throws,
\* the 500 with JSON-RPC code -32603 is written iff no response head had been
\* sent; a request that ends in 400 or 500 has stored nothing in the map.
C27_ExactlyOneResponse ==
    \A i \in PostIds :
        LET r == posts[i]
        IN /\ r.responses <= 1
           /\ r.pc = "done" => r.responses = 1
           /\ r.threw => ((r.status = 500 /\ r.code = -32603) <=> ~r.sentAtThrow)
           /\ r.status = 500 => r.threw
           /\ (r.pc = "done" /\ r.status \in {400, 500}) => ~r.stored

\* one handler threw after the response head and wrote nothing more, another
\* threw before it and answered 500
C27_Witness ==
    /\ deployed = "src"
    /\ \E i \in PostIds : posts[i].threw /\ posts[i].sentAtThrow /\ posts[i].responses = 1
    /\ \E i \in PostIds : posts[i].threw /\ posts[i].status = 500 /\ posts[i].responses = 1

===========================================================================
